---- MODULE Spec2Model ----
(***************************************************************************)
(* warbot: the streaming aggregator (StreamHandler, ToolCallBuilder), the  *)
(* tool registry and the conversation loop (Warbot.send_message).          *)
(*                                                                         *)
(* Text is a sequence of tokens, so that "".join and + are \o.  A value    *)
(* the code only tests for truthiness (a name, an argument string, a text  *)
(* increment) is modelled by its empty form when it is None.               *)
(***************************************************************************)
EXTENDS Integers, Sequences, FiniteSets, TLC

VARIABLES
    history,          \* Warbot.history
    pc,               \* where send_message stands: idle, create, stream, execute, raised
    assistant_chunks, \* send_message local
    tool_calls,       \* send_message local: the requests _on_tool_call received
    finish_reason,    \* send_message local
    has_tool_calls,   \* send_message local
    builders,         \* handle_stream local tool_calls: the ordered dict of builders
    messages,         \* _execute_tool_calls local
    call_i,           \* _execute_tool_calls: position of its for loop (1-based)
    console,          \* what has been printed to the display sink in this round
    frags,            \* the fragments the current stream has yielded so far
    events,           \* per fragment, the callbacks handle_stream made for it
    dispatched,       \* registry.execute invocations of the current round
    round_history,    \* history as it was when the current round started
    exc,              \* the exception send_message raised, None if none
    returned,         \* the value send_message returned last
    rounds,           \* requests made to the model so far
    registry,         \* tools.registry._tools: the dict's entries in insertion order
    registered,       \* the tools register was called with, in call order
    executed,         \* the outcomes of the registry.execute calls made on their own
    request           \* the messages argument of the latest create call

vars == <<history, pc, assistant_chunks, tool_calls, finish_reason, has_tool_calls,
          builders, messages, call_i, console, frags, events, dispatched,
          round_history, exc, returned, rounds, registry, registered, executed,
          request>>

\* The variables of the tool registry.
RegistryVars == <<registry, registered, executed>>

\* ------------------------------------------------------------------ bounds
MaxFrags == 2
MaxStream == 3
MaxRounds == 2
MaxOps == 5

\* ------------------------------------------------------------- basic values
None == "None"
NoIndex == -1

RECURSIVE Join(_)
Join(parts) == IF parts = <<>> THEN <<>> ELSE Head(parts) \o Join(Tail(parts))

IsPrefix(s, t) == Len(s) <= Len(t) /\ SubSeq(t, 1, Len(s)) = s

\* ----------------------------------------------------------- ToolCallBuilder
NewBuilder(key, call_id, call_index, call_type) ==
    [key |-> key,
     id |-> IF call_id # None /\ call_id # "" THEN call_id ELSE key,
     index |-> call_index,
     type |-> IF call_type # None /\ call_type # "" THEN call_type ELSE "function",
     function_name |-> "",
     arguments |-> <<>>]

\* A builder that keeps only the latest argument fragment.
UpdateFieldsReplacing(b, call, fn) ==
    [b EXCEPT
       !.id = IF b.id = "" /\ call.id # None /\ call.id # "" THEN call.id ELSE @,
       !.index = IF b.index = NoIndex /\ call.index # NoIndex THEN call.index ELSE @,
       !.function_name = IF fn.name # "" THEN fn.name ELSE @,
       !.arguments = IF fn.arguments # <<>> THEN <<fn.arguments>> ELSE @]

UpdateFields(b, call, fn) ==
    [b EXCEPT
       !.id = IF b.id = "" /\ call.id # None /\ call.id # "" THEN call.id ELSE @,
       !.index = IF b.index = NoIndex /\ call.index # NoIndex THEN call.index ELSE @,
       !.function_name = IF fn.name # "" THEN fn.name ELSE @,
       !.arguments = IF fn.arguments # <<>> THEN Append(@, fn.arguments) ELSE @]

NoFunction == [name |-> "", arguments |-> <<>>]

Update(b, call) ==
    IF call.kind = "dict"
    THEN UpdateFields(b, call, IF call.function = <<>> THEN NoFunction ELSE call.function[1])
    ELSE IF call.function # <<>> THEN UpdateFields(b, call, call.function[1]) ELSE b

to_dict(b) ==
    [id |-> IF b.id # "" THEN b.id ELSE "call",
     type |-> b.type,
     function |-> [name |-> IF b.function_name # "" THEN b.function_name
                            ELSE "unknown_function",
                   arguments |-> Join(b.arguments)]]

\* -------------------------------------------------------------- StreamHandler
Event(cb, arg) == [cb |-> cb, arg |-> arg]

\* The values a reasoning or answer field holds: None, a string (a sequence
\* of tokens, <<>> being ""), a list of parts, and, as a part, a dict with a
\* "text" entry.
PyNone == [kind |-> "None", text |-> <<>>, parts |-> <<>>]
PyStr(t) == [kind |-> "str", text |-> t, parts |-> <<>>]
PyDict(t) == [kind |-> "dict", text |-> t, parts |-> <<>>]
PyList(ps) == [kind |-> "list", text |-> <<>>, parts |-> ps]

\* Python's truth value of v.
Truthy(v) ==
    CASE v.kind = "None" -> FALSE
      [] v.kind = "str" -> v.text # <<>>
      [] v.kind = "list" -> v.parts # <<>>
      [] OTHER -> TRUE

\* str(v) of a value that is not a list.
Str(v) ==
    CASE v.kind = "str" -> v.text
      [] v.kind = "dict" -> <<"{'text': '">> \o v.text \o <<"'}">>
      [] OTHER -> <<"None">>

\* "".join(t if isinstance(t, str) else str(t) for t in thinking)
RECURSIVE JoinThinking(_)
JoinThinking(ps) == IF ps = <<>> THEN <<>> ELSE Str(Head(ps)) \o JoinThinking(Tail(ps))

\* The text_parts loop of _emit_content, joined: a string part as it is, a
\* dict part by its "text" entry, any other part skipped.
RECURSIVE JoinContent(_)
JoinContent(ps) ==
    IF ps = <<>> THEN <<>>
    ELSE (IF Head(ps).kind \in {"str", "dict"} THEN Head(ps).text ELSE <<>>)
         \o JoinContent(Tail(ps))

\* An answer-text emitter that keeps only the first part of a list.
_emit_contentFirstPart(delta) ==
    LET content == delta.content
        text == IF content.kind = "list" THEN JoinContent(<<Head(content.parts)>>)
                ELSE Str(content)
    IN IF ~Truthy(content) \/ text = <<>> THEN <<>> ELSE <<Event("on_content", text)>>

\* getattr(obj, name) where hasattr(obj, name), None otherwise: an object is a
\* record, and its attributes are the record's fields.
Attr(obj, name) == IF name \in DOMAIN obj THEN obj[name] ELSE PyNone

\* The field names the three loops of _emit_thinking go through, in order.
ProbeNames == <<"thinking", "reasoning", "reasoning_content", "internal_monologue">>

\* One loop over the field names: the first truthy attribute stops it. When
\* no attribute is truthy the loop leaves a falsy value, taken as None here
\* since the code only tests its truth value afterwards.
RECURSIVE ProbeFrom(_, _)
ProbeFrom(obj, i) ==
    IF i > Len(ProbeNames) THEN PyNone
    ELSE IF Truthy(Attr(obj, ProbeNames[i])) THEN Attr(obj, ProbeNames[i])
    ELSE ProbeFrom(obj, i + 1)

Probe(obj) == ProbeFrom(obj, 1)

\* The normalisation at the end of _emit_thinking, and the event it makes.
ThinkingEvent(thinking) ==
    LET text == IF thinking.kind = "list" THEN JoinThinking(thinking.parts)
                ELSE Str(thinking)
    IN IF ~Truthy(thinking) \/ text = <<>> THEN <<>> ELSE <<Event("on_thinking", text)>>

\* A reasoning emitter that looks at the fragment first, at the delta last.
_emit_thinkingChunkFirst(delta, choice, chunk) ==
    LET k == Probe(chunk)
        c == IF Truthy(k) THEN k ELSE Probe(choice)
        d == IF Truthy(c) THEN c ELSE Probe(delta)
    IN ThinkingEvent(d)

\* The delta is an object (not a dict), so the dict lookup of lines 137-141
\* does not run; choice and chunk are objects, hence truthy.
_emit_thinking(delta, choice, chunk) ==
    LET d == Probe(delta)
        c == IF Truthy(d) THEN d ELSE Probe(choice)
        k == IF Truthy(c) THEN c ELSE Probe(chunk)
    IN ThinkingEvent(k)

\* An answer-text emitter without the final test of the text.
_emit_contentUnchecked(delta) ==
    LET content == delta.content
        text == IF content.kind = "list" THEN JoinContent(content.parts)
                ELSE Str(content)
    IN IF ~Truthy(content) THEN <<>> ELSE <<Event("on_content", text)>>

_emit_content(delta) ==
    LET content == delta.content
        text == IF content.kind = "list" THEN JoinContent(content.parts)
                ELSE Str(content)
    IN IF ~Truthy(content) \/ text = <<>> THEN <<>> ELSE <<Event("on_content", text)>>

HasKey(bs, key) == \E i \in 1..Len(bs) : bs[i].key = key

KeyPos(bs, key) == CHOOSE i \in 1..Len(bs) : bs[i].key = key

IndexMatches(bs, call_index) == {i \in 1..Len(bs) : bs[i].index = call_index}

FirstOf(S) == CHOOSE i \in S : \A j \in S : i <= j

\* A key synthesized from the ordinal where the code uses the call's index.
ResolveKeyByOrdinal(bs, call, idx) ==
    IF call.id # None THEN call.id
    ELSE IF call.index # NoIndex /\ IndexMatches(bs, call.index) # {}
         THEN bs[FirstOf(IndexMatches(bs, call.index))].key
    ELSE IF call.index # NoIndex THEN "idx_" \o ToString(idx)
    ELSE "call_" \o ToString(idx)

\* A resolution that looks for a builder with the call's index before it
\* looks at the call's identifier.
ResolveKeyIndexFirst(bs, call, idx) ==
    IF call.index # NoIndex /\ IndexMatches(bs, call.index) # {}
    THEN bs[FirstOf(IndexMatches(bs, call.index))].key
    ELSE IF call.id # None THEN call.id
    ELSE IF call.index # NoIndex THEN "idx_" \o ToString(call.index)
    ELSE "call_" \o ToString(idx)

ResolveKey(bs, call, idx) ==
    IF call.id # None THEN call.id
    ELSE IF call.index # NoIndex /\ IndexMatches(bs, call.index) # {}
         THEN bs[FirstOf(IndexMatches(bs, call.index))].key
    ELSE IF call.index # NoIndex THEN "idx_" \o ToString(call.index)
    ELSE "call_" \o ToString(idx)

CollectOne(bs, call, idx) ==
    LET key == ResolveKey(bs, call, idx)
        bs1 == IF HasKey(bs, key) THEN bs
               ELSE Append(bs, NewBuilder(key, call.id, call.index, call.type))
        p == KeyPos(bs1, key)
    IN [bs1 EXCEPT ![p] = Update(bs1[p], call)]

RECURSIVE CollectFrom(_, _, _)
CollectFrom(bs, calls, idx) ==
    IF idx >= Len(calls) THEN bs
    ELSE CollectFrom(CollectOne(bs, calls[idx + 1], idx), calls, idx + 1)

_collect_tool_calls(delta, bs) == CollectFrom(bs, delta.tool_calls, 0)

\* A batch emitted last-created builder first.
_emit_tool_callsReversed(bs) ==
    [i \in 1..Len(bs) |-> Event("on_tool_call", to_dict(bs[Len(bs) + 1 - i]))]

_emit_tool_calls(bs) == [i \in 1..Len(bs) |-> Event("on_tool_call", to_dict(bs[i]))]

\* A handler that emits the batch at every terminal reason.
ChunkEventsAnyReason(chunk, bs) ==
    IF chunk.choices = <<>> THEN <<>>
    ELSE LET choice == chunk.choices[1]
             bs1 == _collect_tool_calls(choice.delta, bs)
         IN _emit_thinking(choice.delta, choice, chunk) \o _emit_content(choice.delta)
            \o (IF choice.finish_reason = None THEN <<>>
                ELSE _emit_tool_calls(bs1) \o <<Event("on_finish", choice.finish_reason)>>)

\* A handler that finalizes the batch before it merges the fragment's own
\* tool-call data.
ChunkEventsBeforeCollect(chunk, bs) ==
    IF chunk.choices = <<>> THEN <<>>
    ELSE LET choice == chunk.choices[1]
         IN _emit_thinking(choice.delta, choice, chunk) \o _emit_content(choice.delta)
            \o (IF choice.finish_reason = None THEN <<>>
                ELSE (IF choice.finish_reason = "tool_calls" THEN _emit_tool_calls(bs)
                      ELSE <<>>)
                     \o <<Event("on_finish", choice.finish_reason)>>)

\* The callbacks one fragment causes, in the order handle_stream makes them.
ChunkEvents(chunk, bs) ==
    IF chunk.choices = <<>> THEN <<>>
    ELSE LET choice == chunk.choices[1]
             bs1 == _collect_tool_calls(choice.delta, bs)
         IN _emit_thinking(choice.delta, choice, chunk) \o _emit_content(choice.delta)
            \o (IF choice.finish_reason = None THEN <<>>
                ELSE (IF choice.finish_reason = "tool_calls" THEN _emit_tool_calls(bs1)
                      ELSE <<>>)
                     \o <<Event("on_finish", choice.finish_reason)>>)

\* A handler that discards its builders only once it has emitted them.
ChunkBuildersKeptOnStop(chunk, bs) ==
    IF chunk.choices = <<>> THEN bs
    ELSE LET choice == chunk.choices[1]
         IN IF choice.finish_reason = "tool_calls" THEN <<>>
            ELSE _collect_tool_calls(choice.delta, bs)

\* The builders handle_stream holds after one fragment.
ChunkBuilders(chunk, bs) ==
    IF chunk.choices = <<>> THEN bs
    ELSE LET choice == chunk.choices[1]
         IN IF choice.finish_reason = None THEN _collect_tool_calls(choice.delta, bs)
            ELSE <<>>

\* ------------------------------------------------- send_message's callbacks
Locals(chunks, calls, reason, has, out) ==
    [assistant_chunks |-> chunks, tool_calls |-> calls, finish_reason |-> reason,
     has_tool_calls |-> has, console |-> out]

_on_tool_call(l, call) ==
    [l EXCEPT !.has_tool_calls = TRUE,
              !.tool_calls = Append(@, call),
              !.console = Append(@, <<"tool", call.function.name>>)]

_on_finish(l, reason) == [l EXCEPT !.finish_reason = reason]

\* An answer-text recorder that displays whatever it buffers.
_on_contentAlways(l, text) ==
    [l EXCEPT !.assistant_chunks = Append(@, text),
              !.console = Append(@, <<"content", text>>)]

_on_content(l, text) ==
    [l EXCEPT !.assistant_chunks = Append(@, text),
              !.console = IF l.has_tool_calls THEN @ ELSE Append(@, <<"content", text>>)]

_log_thinking(l, text) == [l EXCEPT !.console = Append(@, <<"thinking", text>>)]

Callback(l, e) ==
    CASE e.cb = "on_thinking" -> _log_thinking(l, e.arg)
      [] e.cb = "on_content" -> _on_content(l, e.arg)
      [] e.cb = "on_tool_call" -> _on_tool_call(l, e.arg)
      [] e.cb = "on_finish" -> _on_finish(l, e.arg)

RECURSIVE Callbacks(_, _)
Callbacks(l, es) == IF es = <<>> THEN l ELSE Callbacks(Callback(l, Head(es)), Tail(es))

\* ---------------------------------------------------------------- registry
\* ToolRegistry._tools after Warbot._register_default_tools, in registration order.
_tools == <<"get_world_conflicts", "assess_location_risks", "get_preparation_guidance">>

\* A tool object: its name attribute and which instance of its class it is.
ToolObject(name, instance) == [name |-> name, instance |-> instance]

\* The tools _register_default_tools registers, in order.
DefaultTools == [i \in 1..Len(_tools) |-> ToolObject(_tools[i], "first")]

\* The position of name among the entries ts of a dict, 0 if it is no key.
EntryOf(ts, name) ==
    IF \E i \in 1..Len(ts) : ts[i].name = name
    THEN CHOOSE i \in 1..Len(ts) : ts[i].name = name
    ELSE 0

\* A registry that keeps the tool registered first under a name.
_tools_setdefault(ts, tool) == IF EntryOf(ts, tool.name) = 0 THEN Append(ts, tool) ELSE ts

\* A registry that moves a name registered again to the end.
_tools_setitemAtEnd(ts, tool) ==
    Append(SelectSeq(ts, LAMBDA t : t.name # tool.name), tool)

\* self._tools[tool.name] = tool on the entries ts.
_tools_setitem(ts, tool) ==
    IF EntryOf(ts, tool.name) = 0 THEN Append(ts, tool)
    ELSE [ts EXCEPT ![EntryOf(ts, tool.name)] = tool]

\* Tool.to_function_schema: the instance stands for the description and the
\* parameters the tool object carries.
to_function_schema(tool) ==
    [type |-> "function",
     function |-> [name |-> tool.name, description |-> tool.instance]]

\* ToolRegistry.get_function_schemas on the entries ts.
get_function_schemas(ts) == [i \in 1..Len(ts) |-> to_function_schema(ts[i])]

Registered(name) == \E i \in 1..Len(_tools) : _tools[i] = name

\* Tool.execute(**kwargs): the call binds kwargs to the handler's signature and
\* raises TypeError when they do not fit; kwargs is the set of argument names.
ToolExecute(name, kwargs) ==
    CASE name = "get_world_conflicts" ->
           IF kwargs \subseteq {"region"} THEN "result" ELSE "TypeError"
      [] name = "assess_location_risks" ->
           IF kwargs = {"location"} THEN "result" ELSE "TypeError"
      [] name = "get_preparation_guidance" ->
           IF "scenario" \in kwargs /\ kwargs \subseteq {"scenario", "location"}
           THEN "result" ELSE "TypeError"

\* ToolRegistry.execute: the handler's outcome, or KeyError for an unknown name.
RegistryExecute(name, kwargs) ==
    IF ~Registered(name) THEN "KeyError" ELSE ToolExecute(name, kwargs)

\* tool.execute(**kwargs): how the call ends and what it returns or raises.
\* DummyTool takes any keyword arguments and returns them in its result.
HandlerCall(tool, kwargs) ==
    LET outcome == IF tool.name = "dummy" THEN "result" ELSE ToolExecute(tool.name, kwargs)
    IN [outcome |-> outcome,
        value |-> IF outcome = "result" THEN [ok |-> TRUE, by |-> tool, kwargs |-> kwargs]
                  ELSE [ok |-> FALSE, by |-> tool, kwargs |-> kwargs]]

NoValue == [ok |-> FALSE, by |-> ToolObject(None, None), kwargs |-> {}]

\* A registry that turns a handler's failure into an empty result.
executeCatching(ts, name, kwargs) ==
    IF EntryOf(ts, name) = 0
    THEN [outcome |-> "KeyError", value |-> NoValue, invoked |-> <<>>]
    ELSE [outcome |-> "result",
          value |-> IF HandlerCall(ts[EntryOf(ts, name)], kwargs).outcome = "result"
                    THEN HandlerCall(ts[EntryOf(ts, name)], kwargs).value ELSE NoValue,
          invoked |-> <<[tool |-> ts[EntryOf(ts, name)], kwargs |-> kwargs]>>]

\* ToolRegistry.execute on the entries ts: how the call ends, what it returns
\* or raises, and the handler calls it made.
execute(ts, name, kwargs) ==
    IF EntryOf(ts, name) = 0
    THEN [outcome |-> "KeyError", value |-> NoValue, invoked |-> <<>>]
    ELSE [outcome |-> HandlerCall(ts[EntryOf(ts, name)], kwargs).outcome,
          value |-> HandlerCall(ts[EntryOf(ts, name)], kwargs).value,
          invoked |-> <<[tool |-> ts[EntryOf(ts, name)], kwargs |-> kwargs]>>]

\* ------------------------------------------------------------------- json
\* The argument text is a sequence of JSON tokens: "{", "}", ",", a member
\* ("key":"value" as one token) or the digit "1".
Members == {"\"location\":\"X\"", "\"region\":\"Europe\"", "\"scenario\":\"internet loss\""}

MemberKey(tok) ==
    CASE tok = "\"location\":\"X\"" -> "location"
      [] tok = "\"region\":\"Europe\"" -> "region"
      [] tok = "\"scenario\":\"internet loss\"" -> "scenario"

MembersOk(mid) ==
    \/ mid = <<>>
    \/ /\ Len(mid) % 2 = 1
       /\ \A i \in 1..Len(mid) : IF i % 2 = 1 THEN mid[i] \in Members ELSE mid[i] = ","

\* json.loads: an object (its keys), a number, or JSONDecodeError.
JsonLoads(s) ==
    IF Len(s) >= 2 /\ s[1] = "{" /\ s[Len(s)] = "}" /\ MembersOk(SubSeq(s, 2, Len(s) - 1))
    THEN [kind |-> "object",
          keys |-> {MemberKey(s[i]) : i \in {j \in 2..(Len(s) - 1) : j % 2 = 0}}]
    ELSE IF s # <<>> /\ \A i \in 1..Len(s) : s[i] = "1"
    THEN [kind |-> "number", keys |-> {}]
    ELSE [kind |-> "JSONDecodeError", keys |-> {}]

\* json.dumps(result) of a handler's result, as the text of one token.
JsonDumps(name, kwargs) == <<"{\"result\":...}">>

\* ------------------------------------------------------------------ Warbot
SYSTEM_PROMPT == <<"You are an assistant ...">>

_format_assistant_tool_message(calls) ==
    [role |-> "assistant",
     tool_calls |-> [i \in 1..Len(calls) |->
                       [id |-> calls[i].id,
                        type |-> calls[i].type,
                        function |-> [name |-> calls[i].function.name,
                                      arguments |-> calls[i].function.arguments]]]]

\* One pass of _execute_tool_calls' loop body for `call`: the arguments the
\* handler is called with and what the dispatch does.
DecodeArgs(call) ==
    LET text == IF call.function.arguments = <<>> THEN <<"{", "}">>
                ELSE call.function.arguments
        v == JsonLoads(text)
    IN IF v.kind = "JSONDecodeError" THEN [kind |-> "object", keys |-> {}] ELSE v

Dispatch(call) ==
    LET args == DecodeArgs(call)
    IN IF args.kind # "object" THEN "TypeError"
       ELSE RegistryExecute(call.function.name, args.keys)

\* A tool message correlated by the capability name instead of the identifier.
ToolMessageByName(call) ==
    [role |-> "tool",
     tool_call_id |-> call.function.name,
     name |-> call.function.name,
     content |-> JsonDumps(call.function.name, DecodeArgs(call).keys)]

ToolMessage(call) ==
    [role |-> "tool",
     tool_call_id |-> call.id,
     name |-> call.function.name,
     content |-> JsonDumps(call.function.name, DecodeArgs(call).keys)]

\* ------------------------------------------------------------- the fragments
Call(kind, id, index, name, arguments) ==
    [kind |-> kind, id |-> id, index |-> index, type |-> None,
     function |-> <<[name |-> name, arguments |-> arguments]>>]

\* A fragment whose reasoning and answer fields hold the values given.
ChunkOf(thinking, content, calls, reason) ==
    [choices |-> <<[delta |-> [thinking |-> thinking, content |-> content,
                                tool_calls |-> calls],
                    finish_reason |-> reason]>>]

\* A fragment whose reasoning and answer fields are strings, None when empty.
Field(t) == IF t = <<>> THEN PyNone ELSE PyStr(t)
Chunk(thinking, content, calls, reason) ==
    ChunkOf(Field(thinking), Field(content), calls, reason)

NoChoices == [choices |-> <<>>]

Reasons == {None, "stop", "tool_calls"}

\* What the upstream model sends the conversation loop.
BotCalls ==
    { Call("obj", "a", 0, "assess_location_risks", <<"{">>),
      Call("obj", None, 0, "", <<"\"location\":\"X\"", "}">>),
      Call("obj", "w", 1, "get_world_conflicts", <<>>),
      Call("obj", "g", 2, "get_world_conflicts", <<"{", "\"region\":\"Europe\"", "}">>),
      Call("obj", "f", 1, "foo", <<"{", "}">>) }

BotFrags ==
    {Chunk(<<>>, <<>>, <<c>>, r) : c \in BotCalls, r \in Reasons}
    \cup {Chunk(<<>>, <<"hello">>, <<>>, r) : r \in Reasons}
    \cup {Chunk(<<>>, <<>>, <<>>, r) : r \in {"stop", "tool_calls"}}

\* What a test feeds StreamHandler.handle_stream directly: identifiers a and b,
\* positions 0 and 1, argument text in two parts, object-like and dict-like calls.
ArgsHead == <<"{\"loc\"">>
ArgsTail == <<"\":\"X\"}">>

StreamCalls ==
    { Call("obj", "a", 0, "get_risk", ArgsHead),
      Call("obj", "a", NoIndex, "", ArgsTail),
      Call("obj", "b", 1, "get_prep", ArgsHead),
      Call("dict", "b", NoIndex, "", ArgsTail),
      Call("obj", None, 0, "get_risk", ArgsHead),
      Call("dict", None, 0, "", ArgsTail),
      Call("obj", None, 1, "", ArgsHead),
      Call("obj", None, NoIndex, "", ArgsHead) }

StreamFrags ==
    {Chunk(<<>>, <<>>, <<c>>, r) : c \in StreamCalls, r \in {None, "tool_calls"}}
    \cup {Chunk(<<>>, <<>>, <<Call("obj", "a", 0, "get_risk", ArgsHead)>>, "stop"),
          Chunk(<<>>, <<>>, <<Call("dict", None, 0, "", ArgsTail)>>, "stop")}
    \cup {Chunk(<<>>, <<"hello">>, <<>>, r) : r \in {None, "stop"}}
    \cup {Chunk(<<"t">>, <<>>, <<>>, None), NoChoices,
          Chunk(<<>>, <<>>, <<>>, "tool_calls")}
    \cup {ChunkOf(PyList(<<PyStr(<<"hm">>), PyStr(<<"m">>)>>), PyNone, <<>>, None),
          ChunkOf(PyNone, PyList(<<PyStr(<<"wor">>), PyDict(<<"ld">>)>>), <<>>, None),
          ChunkOf(PyStr(<<"t">>), PyStr(<<"hi">>),
                  <<Call("obj", "a", 0, "get_risk", ArgsHead)>>, "tool_calls"),
          Chunk(<<>>, <<>>, <<Call("obj", "a", NoIndex, "get_prep", <<>>)>>, None),
          Chunk(<<>>, <<>>, <<Call("obj", "b", 1, "get_prep", ArgsHead),
                              Call("obj", None, NoIndex, "", ArgsTail)>>, None)}

\* The last fragment carried a terminal reason: the transport sends no more.
Terminated(fs) ==
    /\ fs # <<>>
    /\ fs[Len(fs)].choices # <<>>
    /\ fs[Len(fs)].choices[1].finish_reason # None

\* ----------------------------------------------------------------- actions
Init ==
    /\ history = <<[role |-> "system", content |-> SYSTEM_PROMPT]>>
    /\ pc = "idle"
    /\ assistant_chunks = <<>>
    /\ tool_calls = <<>>
    /\ finish_reason = None
    /\ has_tool_calls = FALSE
    /\ builders = <<>>
    /\ messages = <<>>
    /\ call_i = 0
    /\ console = <<>>
    /\ frags = <<>>
    /\ events = <<>>
    /\ dispatched = <<>>
    /\ round_history = history
    /\ exc = None
    /\ returned = <<>>
    /\ rounds = 0
    /\ registry = DefaultTools
    /\ registered = DefaultTools
    /\ executed = <<>>
    /\ request = <<>>

\* A request builder that sends the system prompt and the latest message only.
_build_inputLastOnly(h) == <<h[1], h[Len(h)]>>

\* _build_input(): the messages argument of create is the history itself.
_build_input(h) == h

\* Lines 93-96: the locals of one round of the while loop.
NewRound ==
    /\ assistant_chunks' = <<>>
    /\ tool_calls' = <<>>
    /\ finish_reason' = None
    /\ has_tool_calls' = FALSE
    /\ console' = <<>>
    /\ builders' = <<>>
    /\ frags' = <<>>
    /\ events' = <<>>
    /\ dispatched' = <<>>
    /\ messages' = <<>>
    /\ call_i' = 0
    /\ round_history' = history'

\* send_message(user_input) up to the first request.  main() calls it again
\* once it has returned; an exception out of send_message is caught nowhere
\* (main catches KeyboardInterrupt only) and ends the process.
SendMessage ==
    /\ pc = "idle"
    /\ rounds < MaxRounds
    /\ history' = Append(history, [role |-> "user", content |-> <<"u">>])
    /\ NewRound
    /\ pc' = "create"
    /\ exc' = None
    /\ returned' = <<>>
    /\ UNCHANGED rounds
    /\ UNCHANGED RegistryVars
    /\ UNCHANGED request

\* client.chat.completions.create(...) returns a stream; handle_stream starts.
CreateStream ==
    /\ pc = "create"
    /\ rounds < MaxRounds
    /\ pc' = "stream"
    /\ rounds' = rounds + 1
    /\ UNCHANGED <<history, assistant_chunks, tool_calls, finish_reason, has_tool_calls,
                   builders, messages, call_i, console, frags, events, dispatched,
                   round_history, exc, returned>>
    /\ UNCHANGED RegistryVars
    /\ request' = _build_input(history)

\* client.chat.completions.create(...) raises: the exception leaves send_message.
CreateRaises ==
    /\ pc = "create"
    /\ rounds < MaxRounds
    /\ pc' = "raised"
    /\ exc' = "APIError"
    /\ rounds' = rounds + 1
    /\ UNCHANGED <<history, assistant_chunks, tool_calls, finish_reason, has_tool_calls,
                   builders, messages, call_i, console, frags, events, dispatched,
                   round_history, returned>>
    /\ UNCHANGED RegistryVars
    /\ request' = _build_input(history)

\* A loop that saves the text buffered so far when the stream breaks.
StreamBreaksSavingPartial ==
    /\ pc = "stream"
    /\ pc' = "raised"
    /\ exc' = "APIError"
    /\ history' = Append(history, [role |-> "assistant",
                                    content |-> Join(assistant_chunks)])
    /\ UNCHANGED <<assistant_chunks, tool_calls, finish_reason, has_tool_calls,
                   builders, messages, call_i, console, frags, events, dispatched,
                   round_history, returned, rounds>>
    /\ UNCHANGED RegistryVars
    /\ UNCHANGED request

\* The stream breaks while handle_stream iterates: the exception leaves send_message.
StreamBreaks ==
    /\ pc = "stream"
    /\ pc' = "raised"
    /\ exc' = "APIError"
    /\ UNCHANGED <<history, assistant_chunks, tool_calls, finish_reason, has_tool_calls,
                   builders, messages, call_i, console, frags, events, dispatched,
                   round_history, returned, rounds>>
    /\ UNCHANGED RegistryVars
    /\ UNCHANGED request

\* One iteration of handle_stream's for loop on fragment f.
Consume(f) ==
    \E evs \in {ChunkEvents(f, builders)} :
    \E l \in {Callbacks(Locals(assistant_chunks, tool_calls, finish_reason,
                              has_tool_calls, console), evs)} :
       /\ builders' = ChunkBuilders(f, builders)
       /\ assistant_chunks' = l.assistant_chunks
       /\ tool_calls' = l.tool_calls
       /\ finish_reason' = l.finish_reason
       /\ has_tool_calls' = l.has_tool_calls
       /\ console' = l.console
       /\ frags' = Append(frags, f)
       /\ events' = Append(events, evs)
       /\ UNCHANGED <<history, pc, messages, call_i, dispatched, round_history, exc,
                      returned, rounds>>
       /\ UNCHANGED RegistryVars
       /\ UNCHANGED request

\* The transport yields the next fragment; it yields none after a fragment
\* with a terminal reason.
NextChunk ==
    /\ pc = "stream"
    /\ Len(frags) < MaxFrags
    /\ ~Terminated(frags)
    /\ \E f \in BotFrags : Consume(f)

\* A loop that takes the tool branch on emitted requests alone.
StreamEndsOnRequestsOnly ==
    /\ pc = "stream"
    /\ IF tool_calls # <<>>
       THEN /\ history' = Append(history, _format_assistant_tool_message(tool_calls))
            /\ pc' = "execute"
            /\ call_i' = 1
            /\ UNCHANGED returned
       ELSE /\ history' = Append(history, [role |-> "assistant",
                                           content |-> Join(assistant_chunks)])
            /\ pc' = "idle"
            /\ returned' = Join(assistant_chunks)
            /\ UNCHANGED call_i
    /\ UNCHANGED <<assistant_chunks, tool_calls, finish_reason, has_tool_calls, builders,
                   messages, console, frags, events, dispatched, round_history, exc,
                   rounds>>
    /\ UNCHANGED RegistryVars
    /\ UNCHANGED request

\* A loop that, at the end of the stream, turns the accumulators still in
\* flight into requests and takes the tool branch with them.
StreamEndsFlushing ==
    /\ pc = "stream"
    /\ tool_calls' = tool_calls \o [i \in 1..Len(builders) |-> to_dict(builders[i])]
    /\ IF tool_calls' # <<>> \/ finish_reason = "tool_calls"
       THEN /\ history' = Append(history, _format_assistant_tool_message(tool_calls'))
            /\ pc' = "execute"
            /\ call_i' = 1
            /\ UNCHANGED returned
       ELSE /\ history' = Append(history, [role |-> "assistant",
                                           content |-> Join(assistant_chunks)])
            /\ pc' = "idle"
            /\ returned' = Join(assistant_chunks)
            /\ UNCHANGED call_i
    /\ UNCHANGED <<assistant_chunks, finish_reason, has_tool_calls, builders,
                   messages, console, frags, events, dispatched, round_history, exc,
                   rounds>>
    /\ UNCHANGED RegistryVars
    /\ UNCHANGED request

\* The stream is exhausted: handle_stream returns, lines 135-150 run.
StreamEnds ==
    /\ pc = "stream"
    /\ IF tool_calls # <<>> \/ finish_reason = "tool_calls"
       THEN /\ history' = Append(history, _format_assistant_tool_message(tool_calls))
            /\ pc' = "execute"
            /\ call_i' = 1
            /\ UNCHANGED returned
       ELSE /\ history' = Append(history, [role |-> "assistant",
                                           content |-> Join(assistant_chunks)])
            /\ pc' = "idle"
            /\ returned' = Join(assistant_chunks)
            /\ UNCHANGED call_i
    /\ UNCHANGED <<assistant_chunks, tool_calls, finish_reason, has_tool_calls, builders,
                   messages, console, frags, events, dispatched, round_history, exc,
                   rounds>>
    /\ UNCHANGED RegistryVars
    /\ UNCHANGED request

\* One iteration of _execute_tool_calls' for loop.
ExecuteToolCall ==
    /\ pc = "execute"
    /\ call_i <= Len(tool_calls)
    /\ LET call == tool_calls[call_i]
           out == Dispatch(call)
       IN /\ dispatched' = Append(dispatched, call)
          /\ IF out = "result"
             THEN /\ messages' = Append(messages, ToolMessage(call))
                  /\ call_i' = call_i + 1
                  /\ UNCHANGED <<pc, exc>>
             ELSE /\ pc' = "raised"
                  /\ exc' = out
                  /\ UNCHANGED <<messages, call_i>>
    /\ UNCHANGED <<history, assistant_chunks, tool_calls, finish_reason, has_tool_calls,
                   builders, console, frags, events, round_history, returned, rounds>>
    /\ UNCHANGED RegistryVars
    /\ UNCHANGED request

Reverse(q) == [i \in 1..Len(q) |-> q[Len(q) + 1 - i]]

\* A loop that adds the tool messages last-dispatched first.
ExtendHistoryReversed ==
    /\ pc = "execute"
    /\ call_i > Len(tool_calls)
    /\ history' = history \o Reverse(messages)
    /\ NewRound
    /\ pc' = "create"
    /\ UNCHANGED <<exc, returned, rounds>>
    /\ UNCHANGED RegistryVars
    /\ UNCHANGED request

\* A loop that puts the tool messages in place of the round's assistant message.
ExtendHistoryFromRoundStart ==
    /\ pc = "execute"
    /\ call_i > Len(tool_calls)
    /\ history' = round_history \o messages
    /\ NewRound
    /\ pc' = "create"
    /\ UNCHANGED <<exc, returned, rounds>>
    /\ UNCHANGED RegistryVars
    /\ UNCHANGED request

\* A loop that opens the next round as soon as one tool has been dispatched.
ExtendHistoryEarly ==
    /\ pc = "execute"
    /\ call_i > 1 \/ call_i > Len(tool_calls)
    /\ history' = history \o messages
    /\ NewRound
    /\ pc' = "create"
    /\ UNCHANGED <<exc, returned, rounds>>
    /\ UNCHANGED RegistryVars
    /\ UNCHANGED request

\* _execute_tool_calls returns: history.extend(tool_messages); continue.
ExtendHistory ==
    /\ pc = "execute"
    /\ call_i > Len(tool_calls)
    /\ history' = history \o messages
    /\ NewRound
    /\ pc' = "create"
    /\ UNCHANGED <<exc, returned, rounds>>
    /\ UNCHANGED RegistryVars
    /\ UNCHANGED request

Next ==
    \/ SendMessage
    \/ CreateStream
    \/ CreateRaises
    \/ StreamBreaks
    \/ NextChunk
    \/ StreamEnds
    \/ ExecuteToolCall
    \/ ExtendHistory

Spec == Init /\ [][Next]_vars

\* The conversation loop as it runs on: every step that can be taken is taken
\* in the end, and the upstream model, which may ask for tools round after
\* round, does not signal tool_calls in round MaxRounds.
LiveFrags ==
    {Chunk(<<>>, <<>>, <<Call("obj", "w", 1, "get_world_conflicts", <<>>)>>, r) :
        r \in {None, "tool_calls"}}
    \cup {Chunk(<<>>, <<>>, <<Call("obj", "f", 1, "foo", <<"{", "}">>)>>, "tool_calls")}
    \cup {Chunk(<<>>, <<"hello">>, <<>>, r) : r \in Reasons}
    \cup {Chunk(<<>>, <<>>, <<>>, r) : r \in {"stop", "tool_calls"}}

NextChunkLive ==
    /\ pc = "stream"
    /\ Len(frags) < MaxFrags
    /\ ~Terminated(frags)
    /\ \E f \in LiveFrags :
          /\ rounds = MaxRounds => f.choices[1].finish_reason # "tool_calls"
          /\ Consume(f)

NextLive ==
    \/ SendMessage
    \/ CreateStream
    \/ CreateRaises
    \/ StreamBreaks
    \/ NextChunkLive
    \/ StreamEnds
    \/ ExecuteToolCall
    \/ ExtendHistory

SpecLive == Init /\ [][NextLive]_vars /\ WF_vars(NextLive)

\* The tool registry on its own: a registry is made, tools are registered
\* and executed by name, in any order.
ToolNames == {"get_world_conflicts", "dummy"}
Instances == {"first", "second"}
KwargSets == {{}, {"value"}}

\* ToolRegistry(): no tool is registered.
NewRegistry ==
    /\ registered # <<>>
    /\ registry' = <<>>
    /\ registered' = <<>>
    /\ executed' = <<>>
    /\ UNCHANGED <<request, history, pc, assistant_chunks, tool_calls, finish_reason,
                   has_tool_calls, builders, messages, call_i, console, frags, events,
                   dispatched, round_history, exc, returned, rounds>>

\* registry.register(tool)
Register ==
    /\ Len(registered) + Len(executed) < MaxOps
    /\ \E n \in ToolNames, i \in Instances :
          /\ registry' = _tools_setitem(registry, ToolObject(n, i))
          /\ registered' = Append(registered, ToolObject(n, i))
    /\ UNCHANGED <<request, history, pc, assistant_chunks, tool_calls, finish_reason,
                   has_tool_calls, builders, messages, call_i, console, frags, events,
                   dispatched, round_history, exc, returned, rounds, executed>>

\* registry.execute(name, **kwargs)
Execute ==
    /\ Len(registered) + Len(executed) < MaxOps
    /\ \E n \in ToolNames, kwargs \in KwargSets :
          LET r == execute(registry, n, kwargs)
          IN executed' = Append(executed,
                 [name |-> n,
                  kwargs |-> kwargs,
                  after |-> Len(registered),
                  outcome |-> r.outcome,
                  value |-> r.value,
                  invoked |-> r.invoked,
                  instance |-> IF r.invoked = <<>> THEN None
                               ELSE r.invoked[1].tool.instance])
    /\ UNCHANGED <<request, history, pc, assistant_chunks, tool_calls, finish_reason,
                   has_tool_calls, builders, messages, call_i, console, frags, events,
                   dispatched, round_history, exc, returned, rounds, registry,
                   registered>>

NextRegistry == NewRegistry \/ Register \/ Execute

SpecRegistry == Init /\ [][NextRegistry]_vars

\* handle_stream alone, fed any sequence of fragments, with send_message's
\* callbacks as the recorders.
InitStream ==
    /\ Init
    /\ frags = <<>>

FeedChunk ==
    /\ Len(frags) < MaxStream
    /\ \E f \in StreamFrags : Consume(f)

\* handle_stream is called again, on another stream: line 82 makes a new
\* tool_calls dict, and the caller new recorders.
HandleStream ==
    /\ frags # <<>>
    /\ UNCHANGED <<history, pc, exc, returned, rounds>>
    /\ NewRound
    /\ UNCHANGED RegistryVars
    /\ UNCHANGED request

NextStream == FeedChunk \/ HandleStream

SpecStream == InitStream /\ [][NextStream]_vars

\* ------------------------------------------------------------ observations
\* The tool-call deltas of fragments from..to of fs, in arrival order.
RECURSIVE CallsOf(_, _, _)
CallsOf(fs, from, to) ==
    IF from > to THEN <<>>
    ELSE (IF fs[from].choices = <<>> THEN <<>> ELSE fs[from].choices[1].delta.tool_calls)
         \o CallsOf(fs, from + 1, to)

IsTerminal(f) == f.choices # <<>> /\ f.choices[1].finish_reason # None

\* The first fragment after the last completion signal before fragment n.
SegStart(fs, n) ==
    LET T == {i \in 1..(n - 1) : IsTerminal(fs[i])}
    IN IF T = {} THEN 1 ELSE 1 + CHOOSE i \in T : \A j \in T : j <= i

\* The requests on_tool_call received while fragment n was consumed.
RECURSIVE RequestsIn(_)
RequestsIn(es) ==
    IF es = <<>> THEN <<>>
    ELSE (IF Head(es).cb = "on_tool_call" THEN <<Head(es).arg>> ELSE <<>>)
         \o RequestsIn(Tail(es))

CallArgs(c) == IF c.function = <<>> THEN <<>> ELSE c.function[1].arguments

\* The argument text of the calls cs, concatenated in order.
RECURSIVE ArgsOf(_)
ArgsOf(cs) == IF cs = <<>> THEN <<>> ELSE CallArgs(Head(cs)) \o ArgsOf(Tail(cs))

\* A stream has just delivered a fragment with terminal reason tool_calls.
AtToolCallsFinish ==
    /\ frags # <<>>
    /\ IsTerminal(frags[Len(frags)])
    /\ frags[Len(frags)].choices[1].finish_reason = "tool_calls"

Segment == CallsOf(frags, SegStart(frags, Len(frags)), Len(frags))

LastRequests == RequestsIn(events[Len(events)])

CarriesId(c) == c.id # None /\ c.id # ""

\* C1: when a fragment with terminal reason tool_calls has been consumed and
\* every tool-call fragment since the stream began (or since the previous
\* completion signal) carries an identifier, on_tool_call was invoked exactly
\* once per distinct identifier, and that request's arguments are the
\* concatenation, in arrival order, of the argument strings of the fragments
\* carrying the identifier.
C1_OneRequestPerIdentifier ==
    (AtToolCallsFinish /\ \A k \in 1..Len(Segment) : CarriesId(Segment[k])) =>
        LET ids == {Segment[k].id : k \in 1..Len(Segment)}
            reqs == LastRequests
        IN /\ Len(reqs) = Cardinality(ids)
           /\ \A id \in ids :
                 \E k \in 1..Len(reqs) :
                    /\ reqs[k].id = id
                    /\ \A j \in 1..Len(reqs) : reqs[j].id = id => j = k
                    /\ LET Sel(c) == c.id = id
                       IN reqs[k].function.arguments = ArgsOf(SelectSeq(Segment, Sel))

\* Scenario B of the specification: id a in two fragments, the second terminal.
C1_Witness ==
    /\ frags = <<Chunk(<<>>, <<>>, <<Call("obj", "a", 0, "get_risk", ArgsHead)>>, None),
                 Chunk(<<>>, <<>>, <<Call("obj", "a", NoIndex, "", ArgsTail)>>,
                       "tool_calls")>>
    /\ LastRequests = <<[id |-> "a", type |-> "function",
                         function |-> [name |-> "get_risk",
                                       arguments |-> ArgsHead \o ArgsTail]]>>

\* Two identifiers interleaved: a, b, a.
C1_WitnessInterleaved ==
    /\ AtToolCallsFinish
    /\ Len(frags) = 3
    /\ Len(Segment) = 3
    /\ Segment[1].id = "a" /\ Segment[2].id = "b" /\ Segment[3].id = "a"
    /\ Len(LastRequests) = 2

\* The distinct positional indexes of the calls cs, in order of first arrival.
RECURSIVE IndexesOf(_, _)
IndexesOf(cs, seen) ==
    IF cs = <<>> THEN <<>>
    ELSE IF Head(cs).index \in seen THEN IndexesOf(Tail(cs), seen)
    ELSE <<Head(cs).index>> \o IndexesOf(Tail(cs), seen \cup {Head(cs).index})

IndexOnly(c) == c.id = None /\ c.index # NoIndex

\* C2: when a fragment with terminal reason tool_calls has been consumed and
\* every tool-call fragment since the stream began (or since the previous
\* completion signal) carries a positional index and no identifier, exactly
\* one request was emitted per distinct index, and its arguments are the
\* in-order concatenation of that index's argument fragments.
C2_OneRequestPerIndex ==
    (AtToolCallsFinish /\ \A k \in 1..Len(Segment) : IndexOnly(Segment[k])) =>
        LET idxs == IndexesOf(Segment, {})
            reqs == LastRequests
        IN /\ Len(reqs) = Len(idxs)
           /\ \A k \in 1..Len(idxs) :
                 LET Sel(c) == c.index = idxs[k]
                 IN /\ reqs[k].function.arguments = ArgsOf(SelectSeq(Segment, Sel))
                    /\ \A j \in 1..Len(reqs) : reqs[j].id = reqs[k].id => j = k

\* Index 0 in two fragments with index 1 between them.
C2_Witness ==
    /\ AtToolCallsFinish
    /\ Len(Segment) = 3
    /\ \A k \in 1..3 : IndexOnly(Segment[k])
    /\ Segment[1].index = 0 /\ Segment[2].index = 1 /\ Segment[3].index = 0
    /\ Len(LastRequests) = 2
    /\ LastRequests[1].function.arguments = ArgsHead \o ArgsTail

\* --------------------------------------------------- the conversation loop
\* The terminal reason of the current round's stream, None while it has none.
RoundReason ==
    LET T == {i \in 1..Len(frags) : IsTerminal(frags[i])}
    IN IF T = {} THEN None
       ELSE frags[CHOOSE i \in T : \A j \in T : j <= i].choices[1].finish_reason

\* The messages the current round has added to history.
RoundAppends == SubSeq(history, Len(round_history) + 1, Len(history))

IsToolMessage(m) == m.role = "tool"

HasToolCalls(m) == m.role = "assistant" /\ "tool_calls" \in DOMAIN m

Ids(q) == [i \in 1..Len(q) |-> q[i].id]

ToolCallIds(q) == [i \in 1..Len(q) |-> q[i].tool_call_id]

\* C3: in a round whose stream's terminal reason is not tool_calls no tool is
\* dispatched through the registry and no tool message is built or appended
\* to history, whatever tool-call fragments the stream carried.
C3_NoDispatchWithoutToolCallsReason ==
    RoundReason # "tool_calls" =>
        /\ pc # "execute"
        /\ dispatched = <<>>
        /\ messages = <<>>
        /\ \A i \in 1..Len(RoundAppends) : ~IsToolMessage(RoundAppends[i])

\* A round that received a tool-call fragment, then stop, and has returned.
C3_Witness ==
    /\ pc = "idle"
    /\ RoundReason = "stop"
    /\ CallsOf(frags, 1, Len(frags)) # <<>>
    /\ Len(RoundAppends) = 1
    /\ RoundAppends[1].role = "assistant"

\* The position of the most recent assistant message before position i, 0 if none.
PrevAssistant(i) ==
    LET A == {j \in 1..(i - 1) : history[j].role = "assistant"}
    IN IF A = {} THEN 0 ELSE CHOOSE j \in A : \A k \in A : k <= j

\* C4: every tool message of history has a most recent preceding assistant
\* message, that message carries tool-call requests, and exactly one of them
\* has the tool message's tool_call_id.
C4_ToolMessageMatchesOneRequest ==
    \A i \in 1..Len(history) :
        IsToolMessage(history[i]) =>
            LET j == PrevAssistant(i)
            IN /\ j > 0
               /\ HasToolCalls(history[j])
               /\ Cardinality({k \in 1..Len(history[j].tool_calls) :
                      history[j].tool_calls[k].id = history[i].tool_call_id}) = 1

\* Two tool messages answering the two requests of one assistant message.
C4_Witness ==
    /\ Len(history) >= 5
    /\ HasToolCalls(history[3])
    /\ Len(history[3].tool_calls) = 2
    /\ IsToolMessage(history[4])
    /\ IsToolMessage(history[5])

\* The tool messages that directly follow position j of history.
RECURSIVE ToolRun(_)
ToolRun(j) ==
    IF j + 1 <= Len(history) /\ IsToolMessage(history[j + 1])
    THEN <<history[j + 1]>> \o ToolRun(j + 1)
    ELSE <<>>

\* C5: the requests of a round are dispatched one at a time in the order they
\* were finalized, their tool messages are built in that order, and the tool
\* messages that follow an assistant message in history answer its requests
\* in request order, all of them once the round's dispatches have returned.
C5_DispatchInRequestOrder ==
    /\ Len(dispatched) <= Len(tool_calls)
    /\ dispatched = SubSeq(tool_calls, 1, Len(dispatched))
    /\ pc = "execute" => Len(dispatched) = call_i - 1
    /\ Len(messages) <= Len(dispatched)
    /\ ToolCallIds(messages) = SubSeq(Ids(tool_calls), 1, Len(messages))
    /\ \A j \in 1..Len(history) :
          HasToolCalls(history[j]) =>
              \/ ToolRun(j) = <<>>
              \/ ToolCallIds(ToolRun(j)) = Ids(history[j].tool_calls)
    /\ (pc = "create" /\ history[Len(history)].role # "user") =>
          LET j == PrevAssistant(Len(history) + 1)
          IN /\ j > 0
             /\ HasToolCalls(history[j])
             /\ j + Len(history[j].tool_calls) = Len(history)
             /\ ToolCallIds(ToolRun(j)) = Ids(history[j].tool_calls)

\* Two requests with different identifiers answered in history.
C5_Witness ==
    /\ pc = "create"
    /\ Len(history) = 5
    /\ HasToolCalls(history[3])
    /\ Ids(history[3].tool_calls) = <<"g", "w">>
    /\ ToolCallIds(ToolRun(3)) = <<"g", "w">>

\* A tool message for request c is among the round's tool messages.
Answered(c) ==
    \/ \E k \in 1..Len(messages) : messages[k].tool_call_id = c.id
    \/ \E k \in 1..Len(RoundAppends) :
          IsToolMessage(RoundAppends[k]) /\ RoundAppends[k].tool_call_id = c.id

\* C6: once a request naming an unregistered capability has been dispatched,
\* send_message has not raised and a tool message carrying the request's
\* identifier has been built for it.
C6_UnknownCapabilityIsAnswered ==
    \A k \in 1..Len(dispatched) :
        (DecodeArgs(dispatched[k]).kind = "object"
         /\ ~Registered(dispatched[k].function.name)) =>
            pc # "raised" /\ Answered(dispatched[k])

\* C7: once a request whose registered handler raises has been dispatched,
\* send_message has not raised and a tool message carrying the request's
\* identifier has been built for it.
C7_HandlerFailureIsAnswered ==
    \A k \in 1..Len(dispatched) :
        (DecodeArgs(dispatched[k]).kind = "object"
         /\ Registered(dispatched[k].function.name)
         /\ ToolExecute(dispatched[k].function.name, DecodeArgs(dispatched[k]).keys)
              = "TypeError") =>
            pc # "raised" /\ Answered(dispatched[k])

\* C8: when handle_stream has returned from a stream whose terminal reason is
\* tool_calls and no request was emitted, send_message has appended the
\* buffered text as the final assistant message and returned it.
C8_DegenerateRoundReturns ==
    (pc \notin {"create", "stream"} /\ exc # "APIError"
     /\ RoundReason = "tool_calls" /\ tool_calls = <<>>) =>
        /\ pc = "idle"
        /\ RoundAppends = <<[role |-> "assistant", content |-> Join(assistant_chunks)]>>
        /\ returned = Join(assistant_chunks)

\* C9: when the request or the stream failed, send_message has raised and
\* history is what it was when the round started.
C9_TransportFailureLeavesHistory ==
    (pc = "raised" /\ exc = "APIError") => history = round_history

\* The stream broke after text and a tool-call fragment had been received,
\* in a round that follows a tool round.
C9_Witness ==
    /\ pc = "raised"
    /\ exc = "APIError"
    /\ frags # <<>>
    /\ assistant_chunks # <<>>
    /\ IsToolMessage(history[Len(history)])

\* C10: every step leaves the earlier history as a prefix of the later one.
C10_HistoryAppendOnly == [][IsPrefix(history, history')]_vars

\* A tool round and the final answer of the next round, both appended.
C10_Witness ==
    /\ pc = "idle"
    /\ Len(history) = 5
    /\ HasToolCalls(history[3])
    /\ IsToolMessage(history[4])
    /\ history[5] = [role |-> "assistant", content |-> <<"hello">>]

\* ------------------------------------------------------- streamed text order
\* The text an increment carries: a string as it is, a list by its parts' text.
RECURSIVE PartsText(_)
PartsText(ps) == IF ps = <<>> THEN <<>> ELSE Head(ps).text \o PartsText(Tail(ps))

IncrementText(v) == IF v.kind = "list" THEN PartsText(v.parts) ELSE v.text

\* The increments of one field ("thinking" or "content") of fs, in arrival order.
RECURSIVE IncrementsOf(_, _)
IncrementsOf(fs, field) ==
    IF fs = <<>> THEN <<>>
    ELSE (IF Head(fs).choices = <<>> THEN <<>>
          ELSE IncrementText(IF field = "thinking"
                             THEN Head(fs).choices[1].delta.thinking
                             ELSE Head(fs).choices[1].delta.content))
         \o IncrementsOf(Tail(fs), field)

\* The texts callback cb received over the event lists ess, concatenated.
RECURSIVE TextsIn(_, _)
TextsIn(es, cb) ==
    IF es = <<>> THEN <<>>
    ELSE (IF Head(es).cb = cb THEN Head(es).arg ELSE <<>>) \o TextsIn(Tail(es), cb)

RECURSIVE EmittedText(_, _)
EmittedText(ess, cb) ==
    IF ess = <<>> THEN <<>>
    ELSE TextsIn(Head(ess), cb) \o EmittedText(Tail(ess), cb)

\* C11: for every fragment sequence the on_thinking texts, concatenated, are
\* the fragments' reasoning increments concatenated in arrival order, and the
\* on_content texts are the answer increments in arrival order, whatever
\* tool-call fragments come between them.
C11_TextInArrivalOrder ==
    /\ EmittedText(events, "on_thinking") = IncrementsOf(frags, "thinking")
    /\ EmittedText(events, "on_content") = IncrementsOf(frags, "content")

C11_Witness ==
    /\ Len(frags) = 3
    /\ frags[1] = Chunk(<<>>, <<"hello">>, <<>>, None)
    /\ frags[2].choices # <<>>
    /\ frags[2].choices[1].delta.tool_calls # <<>>
    /\ builders # <<>>
    /\ EmittedText(events, "on_content") = <<"hello", "wor", "ld">>

\* ------------------------------------------------------------ final answers
\* C12: when handle_stream has returned from a round in which no request was
\* emitted, send_message has appended exactly one assistant message whose
\* content is the round's answer increments concatenated in order, and has
\* returned that same string.
C12_NoRequestRoundReturnsText ==
    (rounds > 0 /\ pc \notin {"create", "stream"} /\ exc # "APIError"
     /\ tool_calls = <<>>) =>
        /\ pc = "idle"
        /\ RoundAppends = <<[role |-> "assistant",
                             content |-> IncrementsOf(frags, "content")]>>
        /\ returned = IncrementsOf(frags, "content")

\* ------------------------------------------------------ the completion batch
\* The finalized form of accumulator b, spelled out.
Finalized(b) ==
    [id |-> b.id, type |-> b.type,
     function |-> [name |-> IF b.function_name = "" THEN "unknown_function"
                            ELSE b.function_name,
                   arguments |-> Join(b.arguments)]]

\* What the consumption of one terminal fragment must look like, given the
\* accumulators in flight when it arrived.
BatchThenFinish ==
    LET f == frags'[Len(frags')]
        es == events'[Len(events')]
        reason == f.choices[1].finish_reason
        T == {i \in 1..Len(es) : es[i].cb = "on_tool_call"}
        n == Cardinality(T)
        first == Len(es) - n
    IN /\ es # <<>>
       /\ es[Len(es)] = Event("on_finish", reason)
       /\ \A i \in 1..(Len(es) - 1) : es[i].cb # "on_finish"
       /\ IF reason = "tool_calls"
          THEN /\ T = first..(Len(es) - 1)
               /\ n >= Len(builders)
               /\ \A i \in 1..Len(builders) : es[first - 1 + i].arg.id = builders[i].id
               /\ f.choices[1].delta.tool_calls = <<>> =>
                     /\ n = Len(builders)
                     /\ \A i \in 1..n : es[first - 1 + i].arg = Finalized(builders[i])
          ELSE T = {}

\* C13: when a fragment signals terminal reason tool_calls, every in-flight
\* accumulator is emitted as a request, in the order the accumulators were
\* created, the requests next to one another and on_finish right after the
\* last of them; for any other terminal reason on_finish is invoked and no
\* request is emitted.
C13_BatchBeforeFinish ==
    [][(Len(frags') = Len(frags) + 1 /\ IsTerminal(frags'[Len(frags')]))
          => BatchThenFinish]_vars

\* Accumulators a and b, created in that order, were in flight when a bare
\* tool_calls signal arrived.
C13_Witness ==
    /\ Len(frags) = 3
    /\ AtToolCallsFinish
    /\ frags[3].choices[1].delta.tool_calls = <<>>
    /\ Len(events[3]) = 3
    /\ events[3][1].cb = "on_tool_call"
    /\ events[3][1].arg.id = "a"
    /\ events[3][2].cb = "on_tool_call"
    /\ events[3][2].arg.id = "b"
    /\ events[3][3] = Event("on_finish", "tool_calls")

\* --------------------------------------------------- accumulators discarded
\* The builders a handler that starts empty holds after the fragments fs.
RECURSIVE FreshBuilders(_, _)
FreshBuilders(fs, bs) ==
    IF fs = <<>> THEN bs ELSE FreshBuilders(Tail(fs), ChunkBuilders(Head(fs), bs))

\* The fragments since the last completion signal before the latest fragment,
\* the latest one left out.
SegmentBefore == SubSeq(frags, SegStart(frags, Len(frags)), Len(frags) - 1)

\* C14: after a fragment with any terminal reason no accumulator is in flight,
\* and the requests emitted at a tool_calls signal are those of a handler that
\* received nothing but the fragments since the previous completion signal of
\* the same handle_stream call: no earlier tool-call data is in them.
C14_NothingSurvivesCompletion ==
    /\ (frags # <<>> /\ IsTerminal(frags[Len(frags)])) => builders = <<>>
    /\ AtToolCallsFinish =>
          LastRequests = RequestsIn(ChunkEvents(frags[Len(frags)],
                                                FreshBuilders(SegmentBefore, <<>>)))

\* Tool-call data for a arrived, then a stop signal, then tool-call data for b
\* with a tool_calls signal: the batch holds b alone.
C14_Witness ==
    /\ Len(frags) = 3
    /\ ~IsTerminal(frags[1])
    /\ CallsOf(frags, 1, 1) # <<>>
    /\ CallsOf(frags, 1, 1)[1].id = "a"
    /\ IsTerminal(frags[2])
    /\ AtToolCallsFinish
    /\ Len(LastRequests) = 1
    /\ LastRequests[1].id = "b"
    /\ builders = <<>>

\* ------------------------------------------------------- accumulator fields
\* Accumulator b, in flight before a fragment, and what became of it: the
\* accumulator a with the same key, or the request r finalized from it.
NameKept(b, name) == b.function_name # "" => name = b.function_name

FieldsKept ==
    \A i \in 1..Len(builders) :
        /\ builders' # <<>> =>
              /\ builders'[i].key = builders[i].key
              /\ NameKept(builders[i], builders'[i].function_name)
              /\ IsPrefix(builders[i].arguments, builders'[i].arguments)
        /\ (IsTerminal(frags'[Len(frags')])
            /\ frags'[Len(frags')].choices[1].finish_reason = "tool_calls") =>
              LET r == RequestsIn(events'[Len(events')])[i]
              IN /\ NameKept(builders[i], r.function.name)
                 /\ IsPrefix(Join(builders[i].arguments), r.function.arguments)

\* C15: over every fragment consumed, an accumulator that has a capability
\* name keeps it, whatever name the fragment carries for its key, and its
\* argument fragments stay as they are with new ones added after them.
C15_NameFixedArgumentsAppended ==
    [][Len(frags') = Len(frags) + 1 => FieldsKept]_vars

\* ---------------------------------------------------- undecodable arguments
\* C16: once a request whose argument text json.loads cannot decode has been
\* dispatched, the handler was called with no arguments, send_message has not
\* raised and a tool message carrying the request's identifier has been built.
C16_UndecodableArgumentsAnswered ==
    \A k \in 1..Len(dispatched) :
        (dispatched[k].function.arguments # <<>>
         /\ JsonLoads(dispatched[k].function.arguments).kind = "JSONDecodeError") =>
            /\ DecodeArgs(dispatched[k]) = [kind |-> "object", keys |-> {}]
            /\ pc # "raised"
            /\ Answered(dispatched[k])

\* ------------------------------------------------------------- tool rounds
\* The requests on_tool_call received over the event lists ess.
RECURSIVE EmittedRequests(_)
EmittedRequests(ess) ==
    IF ess = <<>> THEN <<>> ELSE RequestsIn(Head(ess)) \o EmittedRequests(Tail(ess))

\* What a round that took the tool branch has added to history when the
\* branch is left: the assistant message with the round's requests and no
\* content, then one tool message per request; nothing is returned.
ToolRoundAppended ==
    LET app == SubSeq(history', Len(round_history) + 1, Len(history'))
        reqs == EmittedRequests(events)
    IN /\ Len(app) = 1 + Len(reqs)
       /\ app[1] = [role |-> "assistant", tool_calls |-> reqs]
       /\ \A i \in 1..Len(reqs) :
             IsToolMessage(app[1 + i]) /\ app[1 + i].tool_call_id = reqs[i].id
       /\ returned' = <<>>

\* C17: when a round leaves the tool branch, it has appended exactly one
\* assistant message, holding exactly the requests emitted in the round and
\* no text content, followed by exactly one tool message per request; the
\* round's answer text is in none of them and nothing has been returned.
C17_ToolRoundAppendsRequestsAndAnswers ==
    [][(pc = "execute" /\ pc' # "execute") => ToolRoundAppended]_vars

\* ------------------------------------------------------------- display sink
\* The events of the round so far, one after another.
RECURSIVE Flatten(_)
Flatten(ess) == IF ess = <<>> THEN <<>> ELSE Head(ess) \o Flatten(Tail(ess))

\* What the display sink is to show for the events es, `seen` telling whether
\* a request was observed before them.
RECURSIVE Displayed(_, _)
Displayed(es, seen) ==
    IF es = <<>> THEN <<>>
    ELSE LET e == Head(es)
         IN (CASE e.cb = "on_thinking" -> <<<<"thinking", e.arg>>>>
               [] e.cb = "on_content" -> IF seen THEN <<>> ELSE <<<<"content", e.arg>>>>
               [] e.cb = "on_tool_call" -> <<<<"tool", e.arg.function.name>>>>
               [] OTHER -> <<>>)
            \o Displayed(Tail(es), seen \/ e.cb = "on_tool_call")

\* The answer texts among the events es, one entry per event.
RECURSIVE AnswerTexts(_)
AnswerTexts(es) ==
    IF es = <<>> THEN <<>>
    ELSE (IF Head(es).cb = "on_content" THEN <<Head(es).arg>> ELSE <<>>)
         \o AnswerTexts(Tail(es))

\* C18: within a round the display sink has received every reasoning text,
\* and an answer text exactly when no request had been observed before it;
\* every answer text is in the buffer, displayed or not.
C18_DisplayUntilToolCall ==
    \A es \in {Flatten(events)} :
        /\ console = Displayed(es, FALSE)
        /\ assistant_chunks = AnswerTexts(es)

\* Reasoning and answer text arrived after a request had been observed: the
\* reasoning was displayed, the answer text was buffered and not displayed.
C18_Witness ==
    /\ Len(frags) = 3
    /\ has_tool_calls
    /\ RequestsIn(events[1]) # <<>>
    /\ events[2] = <<Event("on_content", <<"hello">>)>>
    /\ events[3] = <<Event("on_thinking", <<"t">>)>>
    /\ assistant_chunks = <<<<"hello">>>>
    /\ Len(console) = 2
    /\ console[2] = <<"thinking", <<"t">>>>

\* -------------------------------------------------------------- termination
\* No request or stream fails and no dispatch raises.
NothingRaises == [](pc # "raised")

\* A call of send_message that is waiting for the model returns in the end.
SendMessageReturns == [](pc = "create" => <>(pc = "idle"))

\* handle_stream has returned: send_message returns if the round emitted no
\* request and its terminal reason is not tool_calls, and goes on otherwise.
ReturnsAtFirstFinalRound ==
    /\ (pc = "stream" /\ pc' \notin {"stream", "raised"}) =>
          (pc' = "idle" <=> (EmittedRequests(events) = <<>> /\ RoundReason # "tool_calls"))
    /\ (pc # "idle" /\ pc' = "idle") => (pc = "stream" /\ returned' = Join(assistant_chunks))

\* C19: if every stream is delivered completely, every dispatch returns and
\* the model in the end answers with a round whose terminal reason is not
\* tool_calls, send_message returns in the end; it returns at the end of the
\* first round that emitted no request and whose terminal reason is not
\* tool_calls, and at no other point.
C19_SendMessageTerminates ==
    /\ NothingRaises => SendMessageReturns
    /\ [][ReturnsAtFirstFinalRound]_vars

\* send_message returned in its second round, after a round of tool calls.
C19_Witness ==
    /\ pc = "idle"
    /\ rounds = 2
    /\ Len(history) = 5
    /\ HasToolCalls(history[3])
    /\ IsToolMessage(history[4])
    /\ history[5] = [role |-> "assistant", content |-> <<"hello">>]
    /\ returned = <<"hello">>

\* ----------------------------------------------------------------- registry
\* The positions among the first n register calls that registered name.
RegistrationsOf(name, n) == {i \in 1..n : registered[i].name = name}

\* The tool of the most recent of the first n register calls for name.
LastRegistered(name, n) ==
    registered[CHOOSE i \in RegistrationsOf(name, n) :
                  \A j \in RegistrationsOf(name, n) : j <= i]

\* The registry holds one entry per registered name, the tool registered last.
LastRegistrationWins ==
    /\ \A i, j \in 1..Len(registry) : registry[i].name = registry[j].name => i = j
    /\ \A i \in 1..Len(registry) :
          /\ RegistrationsOf(registry[i].name, Len(registered)) # {}
          /\ registry[i] = LastRegistered(registry[i].name, Len(registered))
    /\ \A i \in 1..Len(registered) : EntryOf(registry, registered[i].name) # 0

\* Every execute of a name registered before it ran the handler of the tool
\* registered last under that name at that time.
ExecuteRunsLastRegistered ==
    \A k \in 1..Len(executed) :
        RegistrationsOf(executed[k].name, executed[k].after) # {} =>
            /\ executed[k].outcome # "KeyError"
            /\ executed[k].instance
                 = LastRegistered(executed[k].name, executed[k].after).instance

\* A register call with the tool the previous register call had.
RegisteredAgain ==
    /\ registered # <<>>
    /\ registered' = Append(registered, registered[Len(registered)])

\* C20: registering a tool under a name already registered raises nothing and
\* replaces the entry: after any sequence of register calls the registry has
\* one entry per name, execute(name) runs the handler of the tool registered
\* last under that name, and registering the same tool twice in a row leaves
\* the registry as it was after the first time.
C20_LastRegistrationWins ==
    /\ [](LastRegistrationWins /\ ExecuteRunsLastRegistered)
    /\ [][RegisteredAgain => registry' = registry]_vars

\* In a new registry dummy was registered twice, as two instances, and then
\* executed: the second instance ran and the registry has one entry.
C20_Witness ==
    /\ registered = <<ToolObject("dummy", "first"), ToolObject("dummy", "second")>>
    /\ registry = <<ToolObject("dummy", "second")>>
    /\ executed # <<>>
    /\ executed[Len(executed)].name = "dummy"
    /\ executed[Len(executed)].after = 2
    /\ executed[Len(executed)].instance = "second"

\* C21: execute(name, args) ends in the unknown-name error and calls no
\* handler when name is not registered; otherwise it calls the handler of the
\* tool registered under name exactly once, with exactly the arguments given,
\* and ends as that call ends: it returns the handler's result unchanged or
\* raises what the handler raised.
C21_ExecutePassesThrough ==
    \A k \in 1..Len(executed) :
        LET e == executed[k]
        IN IF RegistrationsOf(e.name, e.after) = {}
           THEN e.outcome = "KeyError" /\ e.invoked = <<>>
           ELSE LET t == LastRegistered(e.name, e.after)
                IN /\ e.invoked = <<[tool |-> t, kwargs |-> e.kwargs]>>
                   /\ e.outcome = HandlerCall(t, e.kwargs).outcome
                   /\ e.value = HandlerCall(t, e.kwargs).value

\* In a new registry: dummy executed before it was registered, then executed
\* with value=1 once registered, then get_world_conflicts executed with an
\* argument its handler does not take.
C21_Witness ==
    /\ Len(executed) = 3
    /\ executed[1].name = "dummy"
    /\ executed[1].outcome = "KeyError"
    /\ executed[2].name = "dummy"
    /\ executed[2].outcome = "result"
    /\ executed[2].value.kwargs = {"value"}
    /\ executed[3].name = "get_world_conflicts"
    /\ executed[3].outcome = "TypeError"

\* The names of the register calls q, each once, in the order in which they
\* were registered first.
RECURSIVE NamesInOrder(_, _)
NamesInOrder(q, seen) ==
    IF q = <<>> THEN <<>>
    ELSE (IF Head(q).name \in seen THEN <<>> ELSE <<Head(q).name>>)
         \o NamesInOrder(Tail(q), seen \cup {Head(q).name})

\* C22: after any sequence of register calls get_function_schemas returns one
\* descriptor per registered name and no other, in the order in which the
\* names were registered, each the descriptor of the tool registered last
\* under its name.
C22_SchemasInRegistrationOrder ==
    LET schemas == get_function_schemas(registry)
        names == NamesInOrder(registered, {})
    IN /\ Len(schemas) = Len(names)
       /\ \A i \in 1..Len(names) :
             /\ schemas[i].type = "function"
             /\ schemas[i].function.name = names[i]
             /\ schemas[i].function.description
                  = LastRegistered(names[i], Len(registered)).instance

\* dummy, then get_world_conflicts, then dummy again as another instance:
\* two descriptors, dummy's first, describing the second instance.
C22_Witness ==
    /\ registered = <<ToolObject("dummy", "first"),
                      ToolObject("get_world_conflicts", "first"),
                      ToolObject("dummy", "second")>>
    /\ get_function_schemas(registry)
         = <<to_function_schema(ToolObject("dummy", "second")),
             to_function_schema(ToolObject("get_world_conflicts", "first"))>>

\* ------------------------------------------------------- nameless requests
\* The accumulators in flight when the latest fragment, which signalled
\* tool_calls, was finalized.
AtFinalization ==
    _collect_tool_calls(frags[Len(frags)].choices[1].delta,
                        FreshBuilders(SubSeq(frags, 1, Len(frags) - 1), <<>>))

\* C23: every request has a non-empty capability name; an accumulator that
\* has no name at finalization leaves a trace, the request emitted for it
\* under a placeholder name, and no request finalized from such an
\* accumulator is dispatched.
C23_NamelessAccumulatorReported ==
    /\ \A i \in 1..Len(tool_calls) : tool_calls[i].function.name # ""
    /\ AtToolCallsFinish =>
          /\ Len(tool_calls) = Len(AtFinalization)
          /\ \A i \in 1..Len(AtFinalization) :
                AtFinalization[i].function_name = "" =>
                   /\ tool_calls[i].id = AtFinalization[i].id
                   /\ \A k \in 1..Len(dispatched) : dispatched[k] # tool_calls[i]

\* ------------------------------------------------------- correlation keys
\* Accumulators as the resolution order describes them: the key, the index
\* stored first, the argument text so far.  RefCall files one partial tool
\* call, the ord-th of its fragment (counted from 0), under its key: the
\* identifier; else the key of the first accumulator storing its index; else
\* a key made from the index; else a key made from the ordinal.
RefKey(acc, call, ord) ==
    LET same == {i \in 1..Len(acc) : acc[i].index = call.index}
    IN CASE call.id # None -> call.id
         [] call.id = None /\ call.index # NoIndex /\ same # {} ->
              acc[CHOOSE i \in same : \A j \in same : i <= j].key
         [] call.id = None /\ call.index # NoIndex /\ same = {} ->
              "idx_" \o ToString(call.index)
         [] OTHER -> "call_" \o ToString(ord)

RefCall(acc, call, ord) ==
    LET key == RefKey(acc, call, ord)
        at == {i \in 1..Len(acc) : acc[i].key = key}
    IN IF at = {}
       THEN Append(acc, [key |-> key, index |-> call.index, arguments |-> CallArgs(call)])
       ELSE [i \in 1..Len(acc) |->
               IF i \in at
               THEN [acc[i] EXCEPT
                       !.index = IF @ = NoIndex THEN call.index ELSE @,
                       !.arguments = @ \o CallArgs(call)]
               ELSE acc[i]]

RECURSIVE RefCalls(_, _, _)
RefCalls(acc, calls, ord) ==
    IF ord >= Len(calls) THEN acc
    ELSE RefCalls(RefCall(acc, calls[ord + 1], ord), calls, ord + 1)

RECURSIVE RefFrags(_, _)
RefFrags(acc, fs) ==
    IF fs = <<>> THEN acc
    ELSE RefFrags(IF Head(fs).choices = <<>> THEN acc
                  ELSE RefCalls(acc, Head(fs).choices[1].delta.tool_calls, 0),
                  Tail(fs))

\* The fragments since the last completion signal before the latest fragment.
SegmentFrags == SubSeq(frags, SegStart(frags, Len(frags)), Len(frags))

\* C24: at a tool_calls signal the requests are, in order, those of the keys
\* the resolution order gives the partial tool calls received since the
\* previous completion signal (identifier, else accumulator storing the
\* index, else key from the index, else key from the ordinal), each with the
\* argument text of the calls filed under its key; so fragments carrying only
\* the index of a call first seen with identifier and index merge into the
\* one request with that identifier.
C24_KeyResolutionOrder ==
    AtToolCallsFinish =>
        \A acc \in {RefFrags(<<>>, SegmentFrags)}, reqs \in {LastRequests} :
           /\ Len(reqs) = Len(acc)
           /\ \A i \in 1..Len(acc) :
                 /\ reqs[i].id = acc[i].key
                 /\ reqs[i].function.arguments = acc[i].arguments

\* Identifier a with index 0 first, then two fragments carrying index 0 only:
\* one request, a, with the three argument fragments.
C24_Witness ==
    /\ Len(frags) = 3
    /\ AtToolCallsFinish
    /\ Segment = <<Call("obj", "a", 0, "get_risk", ArgsHead),
                   Call("dict", None, 0, "", ArgsTail),
                   Call("dict", None, 0, "", ArgsTail)>>
    /\ Len(LastRequests) = 1
    /\ LastRequests[1].id = "a"
    /\ LastRequests[1].function.arguments = ArgsHead \o ArgsTail \o ArgsTail

\* The second partial tool call of a fragment carried neither identifier nor
\* index: it has its own request under a key made from its ordinal.
C24_WitnessOrdinal ==
    /\ AtToolCallsFinish
    /\ Len(LastRequests) = 2
    /\ LastRequests[1].id = "b"
    /\ LastRequests[2].id = "call_1"

\* ---------------------------------------------------------- late identifier
\* The partial tool calls since the previous completion signal all carry
\* index i; the first carries no identifier, a later one does, and no two of
\* them carry different identifiers.
LateIdentifier(i, x) ==
    /\ Segment # <<>>
    /\ \A k \in 1..Len(Segment) : Segment[k].index = i
    /\ IndexOnly(Segment[1])
    /\ \E k \in 2..Len(Segment) : Segment[k].id = x
    /\ \A k \in 1..Len(Segment) : Segment[k].id \in {None, x}

\* C25: when fragments carrying only index i are followed by a fragment
\* carrying index i and an identifier, the tool_calls signal emits exactly
\* one request for them, with that identifier and with the argument
\* fragments of all of them concatenated.
C25_LateIdentifierMerges ==
    \A i \in {0, 1}, x \in {"a", "b"} :
        (AtToolCallsFinish /\ LateIdentifier(i, x)) =>
            /\ Len(LastRequests) = 1
            /\ LastRequests[1].id = x
            /\ LastRequests[1].function.arguments = ArgsOf(Segment)

\* ------------------------------------------------ reasoning and answer events
\* The four reasoning fields of an object, all None.
NoProbes ==
    [thinking |-> PyNone, reasoning |-> PyNone, reasoning_content |-> PyNone,
     internal_monologue |-> PyNone]

\* A fragment with reasoning fields d at its delta, c at its choice and k at
\* the fragment itself.
ProbeChunk(d, c, k, content, calls, reason) ==
    [choices |-> <<[delta |-> [thinking |-> d.thinking, reasoning |-> d.reasoning,
                                reasoning_content |-> d.reasoning_content,
                                internal_monologue |-> d.internal_monologue,
                                content |-> content, tool_calls |-> calls],
                    finish_reason |-> reason,
                    thinking |-> c.thinking, reasoning |-> c.reasoning,
                    reasoning_content |-> c.reasoning_content,
                    internal_monologue |-> c.internal_monologue]>>,
     thinking |-> k.thinking, reasoning |-> k.reasoning,
     reasoning_content |-> k.reasoning_content,
     internal_monologue |-> k.internal_monologue]

\* A fragment without choices that has a reasoning field of its own.
NoChoicesThinking == [choices |-> <<>>, thinking |-> PyStr(<<"k">>)]

\* Fragments with reasoning at each level and under each name, and with
\* reasoning and answer payloads that are empty or normalize to empty text.
TextFrags ==
    {ProbeChunk([NoProbes EXCEPT !.thinking = PyStr(<<"t">>)], NoProbes, NoProbes,
                PyNone, <<>>, None),
     ProbeChunk([NoProbes EXCEPT !.reasoning = PyStr(<<"r">>)],
                [NoProbes EXCEPT !.thinking = PyStr(<<"c">>)], NoProbes,
                PyNone, <<>>, None),
     ProbeChunk([NoProbes EXCEPT !.reasoning_content = PyStr(<<"rc">>),
                                 !.internal_monologue = PyStr(<<"im">>)],
                NoProbes, NoProbes, PyNone, <<>>, None),
     ProbeChunk([NoProbes EXCEPT !.internal_monologue = PyStr(<<"im">>)], NoProbes,
                [NoProbes EXCEPT !.thinking = PyStr(<<"k">>)], PyNone, <<>>, None),
     ProbeChunk(NoProbes, [NoProbes EXCEPT !.reasoning = PyStr(<<"c">>)],
                [NoProbes EXCEPT !.thinking = PyStr(<<"k">>)], PyNone, <<>>, None),
     ProbeChunk(NoProbes, NoProbes,
                [NoProbes EXCEPT !.reasoning_content = PyStr(<<"k">>)],
                PyNone, <<>>, None),
     ProbeChunk([NoProbes EXCEPT !.thinking = PyStr(<<>>),
                                 !.reasoning = PyStr(<<"r">>)],
                NoProbes, NoProbes, PyNone, <<>>, None),
     ProbeChunk([NoProbes EXCEPT !.thinking = PyList(<<PyStr(<<>>)>>),
                                 !.reasoning = PyStr(<<"r">>)],
                NoProbes, NoProbes, PyNone, <<>>, None),
     ProbeChunk([NoProbes EXCEPT !.thinking = PyList(<<>>)],
                [NoProbes EXCEPT !.internal_monologue =
                     PyList(<<PyStr(<<"c">>), PyStr(<<"c2">>)>>)],
                NoProbes, PyNone, <<>>, None),
     ProbeChunk(NoProbes, NoProbes, NoProbes, PyStr(<<"hi">>), <<>>, None),
     ProbeChunk(NoProbes, NoProbes, NoProbes, PyStr(<<>>), <<>>, None),
     ProbeChunk(NoProbes, NoProbes, NoProbes, PyList(<<>>), <<>>, None),
     ProbeChunk(NoProbes, NoProbes, NoProbes, PyList(<<PyStr(<<>>)>>), <<>>, None),
     ProbeChunk(NoProbes, NoProbes, NoProbes, PyList(<<PyDict(<<>>)>>), <<>>, None),
     ProbeChunk([NoProbes EXCEPT !.thinking = PyStr(<<"t">>)], NoProbes, NoProbes,
                PyStr(<<>>), <<>>, None),
     ProbeChunk([NoProbes EXCEPT !.thinking = PyList(<<PyDict(<<>>)>>)], NoProbes,
                NoProbes, PyNone, <<>>, None),
     Chunk(<<>>, <<>>, <<Call("obj", "a", 0, "get_risk", ArgsHead)>>, None),
     NoChoices,
     NoChoicesThinking}

\* handle_stream fed fragments of TextFrags.
FeedText ==
    /\ Len(frags) < MaxStream
    /\ \E f \in TextFrags : Consume(f)

SpecText == InitStream /\ [][FeedText]_vars

\* The reasoning values of a fragment in probing order: the four names at the
\* delta, then at the choice, then at the fragment.
LevelValues(obj) == [i \in 1..Len(ProbeNames) |-> Attr(obj, ProbeNames[i])]

ProbeValues(f) ==
    (IF f.choices = <<>> THEN <<>>
     ELSE LevelValues(f.choices[1].delta) \o LevelValues(f.choices[1]))
    \o LevelValues(f)

\* A reasoning value's text: a string as it is, a list by its parts joined,
\* a part that is not a string by its str().
ValueText(v) == IF v.kind = "list" THEN JoinThinking(v.parts) ELSE v.text

\* The reasoning texts a fragment should give: the text of the first
\* non-empty value in probing order, nothing when there is none or when that
\* text is empty.
FirstReasoning(f) ==
    LET vs == ProbeValues(f)
        N == {i \in 1..Len(vs) : Truthy(vs[i])}
    IN IF N = {} THEN <<>>
       ELSE LET v == vs[CHOOSE i \in N : \A j \in N : i <= j]
            IN IF ValueText(v) = <<>> THEN <<>> ELSE <<ValueText(v)>>

\* The texts on_thinking received while one fragment was consumed.
RECURSIVE ThinkingTexts(_)
ThinkingTexts(es) ==
    IF es = <<>> THEN <<>>
    ELSE (IF Head(es).cb = "on_thinking" THEN <<Head(es).arg>> ELSE <<>>)
         \o ThinkingTexts(Tail(es))

\* As stated, for every fragment, one without choices included: the
\* reasoning emitted is the first non-empty value probing delta, choice, then
\* the whole fragment.
C26_ReasoningOfEveryFragment ==
    \A k \in 1..Len(frags) : ThinkingTexts(events[k]) = FirstReasoning(frags[k])

\* C26: for each fragment that has a choice, the reasoning text emitted is
\* the first non-empty value found probing thinking, reasoning,
\* reasoning_content, internal_monologue in that order at the delta, then at
\* the choice, then at the fragment; at most one reasoning event per fragment,
\* none when every probe is absent or empty; a fragment without choices
\* emits no reasoning whatever its own fields hold.
C26_FirstNonEmptyProbe ==
    \A k \in 1..Len(frags) :
        /\ Len(ThinkingTexts(events[k])) <= 1
        /\ frags[k].choices # <<>> =>
               ThinkingTexts(events[k]) = FirstReasoning(frags[k])
        /\ frags[k].choices = <<>> => ThinkingTexts(events[k]) = <<>>
        /\ (\A i \in 1..Len(ProbeValues(frags[k])) : ~Truthy(ProbeValues(frags[k])[i]))
               => ThinkingTexts(events[k]) = <<>>

\* Reasoning was taken from the choice while the fragment had some too, from
\* a later name of the delta while the choice had some, and from the
\* fragment alone.
C26_Witness ==
    /\ Len(frags) = 3
    /\ \A k \in 1..3 : frags[k].choices # <<>>
    /\ Probe(frags[1].choices[1].delta) = PyNone
    /\ Truthy(Probe(frags[1].choices[1])) /\ Truthy(Probe(frags[1]))
    /\ ThinkingTexts(events[1]) = <<<<"c">>>>
    /\ ~Truthy(Attr(frags[2].choices[1].delta, "thinking"))
    /\ Truthy(Probe(frags[2].choices[1]))
    /\ ThinkingTexts(events[2]) = <<<<"r">>>>
    /\ Probe(frags[3].choices[1]) = PyNone
    /\ ThinkingTexts(events[3]) = <<<<"k">>>>

\* A payload that is absent, an empty string, an empty list, or a list whose
\* parts normalize to empty text: parts is the normalisation of a list, which
\* differs between reasoning (str() of a part that is not a string) and answer
\* (the "text" entry of a dict part).
EmptyPayload(v, parts) ==
    \/ v.kind = "None"
    \/ v.kind = "str" /\ v.text = <<>>
    \/ v.kind = "list" /\ parts = <<>>

EmptyReasoning(v) == EmptyPayload(v, JoinThinking(v.parts))
EmptyAnswer(v) == EmptyPayload(v, JoinContent(v.parts))

CallbacksIn(es, cb) == {i \in 1..Len(es) : es[i].cb = cb}

\* What consuming fragment f did: evs are its events.
NoEmptyEvent(f, evs) ==
    /\ \A i \in 1..Len(evs) :
           evs[i].cb \in {"on_thinking", "on_content"} => evs[i].arg # <<>>
    /\ f.choices # <<>> =>
          /\ EmptyAnswer(f.choices[1].delta.content) => CallbacksIn(evs, "on_content") = {}
          /\ (\A i \in 1..Len(ProbeValues(f)) : EmptyReasoning(ProbeValues(f)[i]))
                 => CallbacksIn(evs, "on_thinking") = {}

\* C27: on_thinking and on_content never receive an empty string; a reasoning
\* or answer payload that is absent, "", [] or a list whose parts give empty
\* text makes no event; a fragment with no choices makes no event at all and
\* leaves the tool-call accumulators and the round's recorders as they were.
C27_NoEmptyTextEvent ==
    [][\A f \in TextFrags :
           frags' = Append(frags, f) =>
               /\ NoEmptyEvent(f, events'[Len(events')])
               /\ f.choices = <<>> =>
                      /\ events'[Len(events')] = <<>>
                      /\ builders' = builders
                      /\ UNCHANGED <<assistant_chunks, tool_calls, finish_reason,
                                     has_tool_calls, console>>]_vars

\* A fragment without choices came while an accumulator was open, and then a
\* fragment whose answer is a list of one empty string: neither made an event.
C27_Witness ==
    /\ Len(frags) = 3
    /\ frags[2] = NoChoicesThinking
    /\ frags[3].choices # <<>>
    /\ frags[3].choices[1].delta.content = PyList(<<PyStr(<<>>)>>)
    /\ builders # <<>>
    /\ events[2] = <<>> /\ events[3] = <<>>

\* ------------------------------------------------------- requests to the model
UserMessages(h) == Cardinality({j \in 1..Len(h) : h[j].role = "user"})

\* C28: a call of send_message appends the user message once, on entry and
\* before its first request; no other step of the loop adds a user message;
\* and the messages argument of every create call, in every round, is the
\* whole history as it stands at that call.
C28_RequestCarriesHistory ==
    [][/\ (pc = "idle" /\ pc' = "create") =>
              history' = Append(history, [role |-> "user", content |-> <<"u">>])
       /\ UserMessages(history') # UserMessages(history) => (pc = "idle" /\ pc' = "create")
       /\ (pc = "create" /\ pc' # "create") =>
              /\ request' = history
              /\ history' = history]_vars

\* The second round's request: one user message, then the first round's
\* assistant tool-call message and its tool message, nothing after them.
C28_Witness ==
    /\ pc = "stream"
    /\ rounds = 2
    /\ request = history
    /\ UserMessages(request) = 1
    /\ Len(request) >= 4
    /\ request[2].role = "user"
    /\ HasToolCalls(request[Len(request) - 1])
    /\ IsToolMessage(request[Len(request)])

\* ------------------------------------------------------------ one round at a time
\* The recorders the aggregator's callbacks write.
Recorders == <<assistant_chunks, tool_calls, finish_reason, has_tool_calls, console>>

\* C29: one round is active at a time. A tool is dispatched only after the
\* round's stream has ended, and no fragment is consumed while tools are
\* dispatched; the next request is made only when every request of the round
\* has been dispatched and answered, and its stream is opened with nothing
\* dispatched; the callbacks' recorders change only on the step that consumes
\* a fragment, which records that fragment's events, or when a round starts.
C29_OneRoundAtATime ==
    [][/\ dispatched' # dispatched /\ dispatched' # <<>> =>
              /\ pc = "execute"
              /\ frags' = frags /\ events' = events
              /\ Len(dispatched') = Len(dispatched) + 1
       /\ pc = "stream" => dispatched = <<>> /\ messages = <<>>
       /\ (pc = "execute" /\ frags' # frags) => (pc' = "create" /\ frags' = <<>>)
       /\ (pc = "execute" /\ pc' = "create") =>
              /\ Len(dispatched) = Len(tool_calls)
              /\ Len(messages) = Len(tool_calls)
       /\ (pc # "stream" /\ pc' = "stream") =>
              /\ pc = "create"
              /\ frags = <<>> /\ dispatched = <<>> /\ messages = <<>>
       /\ Recorders' # Recorders =>
              \/ /\ pc = "stream" /\ pc' = "stream"
                 /\ Len(frags') = Len(frags) + 1
                 /\ Len(events') = Len(frags')
              \/ /\ frags' = <<>> /\ events' = <<>>
                 /\ Recorders' = <<<<>>, <<>>, None, FALSE, <<>>>>]_vars

\* The second round's stream is being consumed after both tools of the
\* first round were dispatched and answered.
C29_Witness ==
    /\ pc = "stream"
    /\ rounds = 2
    /\ frags # <<>>
    /\ dispatched = <<>>
    /\ Len(history) >= 5
    /\ IsToolMessage(history[Len(history)])
    /\ IsToolMessage(history[Len(history) - 1])

\* ------------------------------------------------------ history between calls
\* C30: whenever send_message is not executing, having returned or raised,
\* every assistant message of history that carries tool-call requests is
\* followed at once by one tool message per request, in request order.
C30_RequestsAnsweredBetweenCalls ==
    pc \in {"idle", "raised"} =>
        \A j \in 1..Len(history) :
            HasToolCalls(history[j]) =>
                ToolCallIds(ToolRun(j)) = Ids(history[j].tool_calls)

\* ------------------------------------------------ stream without terminal reason
\* No fragment of the current stream carried a terminal reason.
NoTerminalReason == \A k \in 1..Len(frags) : ~IsTerminal(frags[k])

\* The stream of the round is exhausted and handle_stream returns (the step
\* out of pc = "stream" that is not a failure of the transport).
StreamExhausted == pc = "stream" /\ pc' # "stream" /\ exc' = None

\* C31: when the stream ends and none of its fragments carried a terminal
\* reason, handle_stream has emitted no request and no completion signal,
\* whatever tool-call fragments it received, and send_message appends the
\* buffered answer text as the assistant message, returns it and dispatches
\* no tool.
C31_NoTerminalReasonIsFinal ==
    [][(StreamExhausted /\ NoTerminalReason) =>
          /\ \A k \in 1..Len(events) :
                /\ CallbacksIn(events[k], "on_tool_call") = {}
                /\ CallbacksIn(events[k], "on_finish") = {}
          /\ pc' = "idle"
          /\ history' = Append(history, [role |-> "assistant",
                                         content |-> EmittedText(events, "on_content")])
          /\ returned' = EmittedText(events, "on_content")
          /\ dispatched' = <<>> /\ messages' = <<>>]_vars

\* send_message has returned "hello" after a stream of a tool-call fragment
\* and an answer fragment, neither with a terminal reason: an accumulator is
\* left in flight and nothing was dispatched.
C31_Witness ==
    /\ pc = "idle"
    /\ Len(frags) = 2
    /\ NoTerminalReason
    /\ frags[1].choices[1].delta.tool_calls # <<>>
    /\ builders # <<>>
    /\ returned = <<"hello">>
    /\ history[Len(history)] = [role |-> "assistant", content |-> <<"hello">>]
    /\ dispatched = <<>>

\* ------------------------------------------------- event order within a fragment
\* The place of a callback in the order reasoning, answer, requests, completion.
EventRank(cb) ==
    CASE cb = "on_thinking" -> 1
      [] cb = "on_content" -> 2
      [] cb = "on_tool_call" -> 3
      [] OTHER -> 4

IsSuffix(s, t) == Len(s) <= Len(t) /\ SubSeq(t, Len(t) - Len(s) + 1, Len(t)) = s

\* The events es of one fragment are in the fixed order, with one reasoning
\* event, one answer event and one completion signal at most.
InFixedOrder(es) ==
    /\ \A i, j \in 1..Len(es) : i < j => EventRank(es[i].cb) <= EventRank(es[j].cb)
    /\ \A cb \in {"on_thinking", "on_content", "on_finish"} :
           Cardinality(CallbacksIn(es, cb)) <= 1

\* Request r holds what partial tool call c carried: its identifier and its
\* name when it has them, and its argument text at the end of r's.
Includes(r, c) ==
    /\ c.id # None => r.id = c.id
    /\ (c.function # <<>> /\ c.function[1].name # "") => r.function.name = c.function[1].name
    /\ IsSuffix(CallArgs(c), r.function.arguments)

\* C32: the events of each fragment come in the order reasoning text, answer
\* text, batch of requests, completion signal; and when the fragment that
\* signals tool_calls carries tool-call data itself, a request of the batch
\* holds that data.
C32_FixedEventOrder ==
    frags # <<>> =>
        \A f \in {frags[Len(frags)]}, es \in {events[Len(events)]} :
            /\ InFixedOrder(es)
            /\ (AtToolCallsFinish /\ f.choices[1].delta.tool_calls # <<>>) =>
                   \A c \in {f.choices[1].delta.tool_calls[Len(f.choices[1].delta.tool_calls)]} :
                       \E i \in CallbacksIn(es, "on_tool_call") : Includes(es[i].arg, c)

\* After a first fragment for call a, one fragment carried reasoning, answer
\* text, more argument text for call a and the tool_calls signal: its four
\* events came in the fixed order and the request holds both argument fragments.
C32_Witness ==
    /\ Len(frags) = 2
    /\ AtToolCallsFinish
    /\ frags[2].choices[1].delta.tool_calls # <<>>
    /\ Len(events[2]) = 4
    /\ events[2][1].cb = "on_thinking"
    /\ events[2][2].cb = "on_content"
    /\ events[2][3].cb = "on_tool_call"
    /\ events[2][3].arg.id = "a"
    /\ Len(events[2][3].arg.function.arguments) = 2
    /\ events[2][4] = Event("on_finish", "tool_calls")

====
